---------------------------- MODULE Spec2Model ----------------------------
(***************************************************************************)
(* Display Tools (Home Assistant integration): a model of                  *)
(* custom_components/display_tools/__init__.py.                            *)
(*                                                                         *)
(* Text is modelled as a sequence of tokens (a token is one character or   *)
(* one run of characters that no operation of the program looks into), so  *)
(* that split('.'), strip(), rstrip('/') do real work.  A Python dict is  *)
(* modelled as the sequence of its <<key, value>> items in insertion       *)
(* order, with distinct keys.                                              *)
(***************************************************************************)
EXTENDS Integers, Sequences, FiniteSets, TLC

VARIABLES
    db,          \* the host translation backend: the mapping it serves
    hostUrl,     \* the host's URL configuration read by _get_base_url
    entryUrl,    \* config_entry.data[CONF_BASE_URL]
    services,    \* the names registered under DOMAIN in hass.services
    domainData,  \* whether hass.data holds DOMAIN (config_entry and store)
    store,       \* the persisted record of Store(STORAGE_KEY); empty = none
    states,      \* hass.states restricted to the three sensors
    fs,          \* /config/www/display_tools and cover.jpeg in it
    last,        \* the last handler call: its inputs and what it produced
    pure,        \* a pending or finished call of one of the helpers
    tasks        \* service calls in flight, each suspended at one of its awaits

vars == <<db, hostUrl, entryUrl, services, domainData, store, states, fs, last, pure, tasks>>

-----------------------------------------------------------------------------
(* Bounds of the model                                                     *)

MaxEntries == 2
MaxKeys == 2
MaxImageDim == 170
MaxForecasts == 13

MaxTasks == 2

-----------------------------------------------------------------------------
(* Generic helpers                                                         *)

Min(a, b) == IF a <= b THEN a ELSE b

Max(a, b) == IF a >= b THEN a ELSE b

Abs(a) == IF a < 0 THEN -a ELSE a

Range(s) == {s[i] : i \in DOMAIN s}

SeqsUpTo(S, n) == UNION {[1..m -> S] : m \in 0..n}

\* dict: the keys, membership, lookup and item assignment (d[k] = v keeps the
\* position of an existing key and appends a new one)
DictKeys(d) == {d[i][1] : i \in DOMAIN d}

DictHas(d, k) == k \in DictKeys(d)

DictGet(d, k) == d[CHOOSE i \in DOMAIN d : d[i][1] = k][2]

DictSet(d, k, v) ==
    IF DictHas(d, k)
    THEN [i \in DOMAIN d |-> IF d[i][1] = k THEN <<k, v>> ELSE d[i]]
    ELSE Append(d, <<k, v>>)

IsDict(d) == \A i, j \in DOMAIN d : d[i][1] = d[j][1] => i = j

\* dict.update on the persisted record (a mapping from field names)
NoRecord == [k \in {} |-> 0]

\* a record written anew, without the fields it held
RecordReplace(s, f) == f

RecordUpdate(s, f) ==
    [k \in DOMAIN s \cup DOMAIN f |-> IF k \in DOMAIN f THEN f[k] ELSE s[k]]

-----------------------------------------------------------------------------
(* Text                                                                    *)

Dot == "."

Slash == "/"

Space == " "

\* str.split('.'): the segments between the dots, "" for an empty one
RECURSIVE SplitAcc(_, _, _)
SplitAcc(s, cur, acc) ==
    IF s = <<>> THEN Append(acc, cur)
    ELSE IF Head(s) = Dot THEN SplitAcc(Tail(s), <<>>, Append(acc, cur))
    ELSE SplitAcc(Tail(s), Append(cur, Head(s)), acc)

Split(s) == SplitAcc(s, <<>>, <<>>)

\* str.rstrip('/')
RECURSIVE RStripSlash(_)
RStripSlash(s) ==
    IF s # <<>> /\ s[Len(s)] = Slash THEN RStripSlash(SubSeq(s, 1, Len(s) - 1)) ELSE s

\* str.strip()
RECURSIVE LStrip(_)
LStrip(s) == IF s # <<>> /\ Head(s) = Space THEN LStrip(Tail(s)) ELSE s

RECURSIVE RStrip(_)
RStrip(s) == IF s # <<>> /\ s[Len(s)] = Space THEN RStrip(SubSeq(s, 1, Len(s) - 1)) ELSE s

Strip(s) == LStrip(RStrip(s))

\* A value that is not a str (a number decoded from JSON, None) is written as
\* a one-token text behind this mark; str values never start with it.
NonStrMark == "#nonstr"

NonStr(x) == <<NonStrMark, x>>

IsStr(x) == x = <<>> \/ Head(x) # NonStrMark

-----------------------------------------------------------------------------
(* Translations: the keys and mappings the model draws from                *)

K_VacuumStateCleaning == <<"component", ".", "vacuum", ".", "state", ".", "cleaning">>

K_VacuumAttrCleaning == <<"component", ".", "vacuum", ".", "attr", ".", "cleaning">>

K_CoverStateOpening == <<"component", ".", "cover", ".", "state", ".", "opening">>

K_ComponentVacuum == <<"component", ".", "vacuum">>

K_ComponentOnly == <<"component">>

K_ComponentDot == <<"component", ".">>

K_StateVacuumCleaning == <<"state", ".", "vacuum", ".", "cleaning">>

K_ComponentsVacuum == <<"component", "s", ".", "vacuum", ".", "cleaning">>

K_Empty == <<>>

KeyPool ==
    { K_VacuumStateCleaning, K_VacuumAttrCleaning, K_CoverStateOpening,
      K_ComponentVacuum, K_ComponentOnly, K_ComponentDot,
      K_ComponentsVacuum, K_Empty }

ValuePool == { <<"Cleaning">>, <<"Docked">> }

\* every mapping of at most MaxEntries items over the pools
Dicts == {d \in SeqsUpTo(KeyPool \X ValuePool, MaxEntries) : IsDict(d)}

-----------------------------------------------------------------------------
(* _filter_translations_by_keys                                            *)

RECURSIVE FilterLoop(_, _, _)
FilterLoop(translations, keys, filtered) ==
    IF keys = <<>> THEN filtered
    ELSE LET key == Head(keys)
         IN  FilterLoop(translations, Tail(keys),
                 DictSet(filtered, key,
                     IF DictHas(translations, key)
                     THEN DictGet(translations, key)
                     ELSE key))

\* the loop without its else branch: an absent key is skipped
FilterSkippingAbsent(translations, keys) ==
    IF keys = <<>> THEN translations
    ELSE FilterLoop(translations,
             SelectSeq(keys, LAMBDA k : DictHas(translations, k)), <<>>)

FilterTranslationsByKeys(translations, keys) ==
    IF keys = <<>> THEN translations
    ELSE FilterLoop(translations, keys, <<>>)

-----------------------------------------------------------------------------
(* Grouping of handle_get_translations_esphome                             *)

Sentinel == <<"component">>

\* the test of line 551 on the parts of one key
Matches(parts) == Len(parts) >= 2 /\ parts[1] = Sentinel

Component(parts) == parts[2]

FinalKey(parts) == parts[Len(parts)]

\* one iteration of a loop that keeps the first value of a short key
GroupOneFirstWins(grouped, key, value) ==
    LET parts == Split(key)
    IN  IF Matches(parts)
        THEN LET component == Component(parts)
                 bucket == IF DictHas(grouped, component)
                           THEN DictGet(grouped, component)
                           ELSE <<>>
             IN  IF DictHas(bucket, FinalKey(parts))
                 THEN grouped
                 ELSE DictSet(grouped, component, DictSet(bucket, FinalKey(parts), value))
        ELSE grouped

\* one iteration of the loop: grouped_translations[component][final_key] = value
GroupOne(grouped, key, value) ==
    LET parts == Split(key)
    IN  IF Matches(parts)
        THEN LET component == Component(parts)
                 bucket == IF DictHas(grouped, component)
                           THEN DictGet(grouped, component)
                           ELSE <<>>
             IN  DictSet(grouped, component, DictSet(bucket, FinalKey(parts), value))
        ELSE grouped

RECURSIVE GroupLoop(_, _)
GroupLoop(items, grouped) ==
    IF items = <<>> THEN grouped
    ELSE GroupLoop(Tail(items), GroupOne(grouped, Head(items)[1], Head(items)[2]))

GroupTranslations(translations) == GroupLoop(translations, <<>>)

\* key.split('.') raises AttributeError on a key that is not a str
GroupRaises(translations) == \E i \in DOMAIN translations : ~IsStr(translations[i][1])

-----------------------------------------------------------------------------
(* Timestamps of _filter_forecast_attributes                               *)
(*                                                                         *)
(* A datetime value is its wall-clock reading (in minutes) and, when it is *)
(* aware, its UTC offset in minutes.  A str timestamp is what is written   *)
(* in it: an ISO-8601 reading followed by nothing, by 'Z' or by an offset, *)
(* or some other text.                                                     *)

DateTime(wall, aware, off) == [wall |-> wall, aware |-> aware, off |-> off]

IsoText(wall, zone, off) ==
    [form |-> "iso", wall |-> wall, zone |-> zone, off |-> off, text |-> ""]

PlainText(text) == [form |-> "text", wall |-> 0, zone |-> "none", off |-> 0, text |-> text]

EmptyText == PlainText("")

\* dt.replace(tzinfo=timezone.utc): the reading is kept
ReplaceTzUtc(dt) == DateTime(dt.wall, TRUE, 0)

\* dt.astimezone(timezone.utc) of an aware value: the same instant
AsTimezoneUtc(dt) == DateTime(dt.wall - dt.off, TRUE, 0)

\* datetime.isoformat(): an aware value is followed by its offset
IsoFormat(dt) == IsoText(dt.wall, IF dt.aware THEN "offset" ELSE "none", dt.off)

\* str.replace('Z', '+00:00')
ReplaceZ(s) == IF s.form = "iso" /\ s.zone = "Z" THEN IsoText(s.wall, "offset", 0) ELSE s

\* datetime.fromisoformat: raises ValueError on text that is no ISO reading
FromIsoFormatRaises(s) == s.form # "iso" \/ s.zone = "Z"

FromIsoFormat(s) == DateTime(s.wall, s.zone = "offset", s.off)

\* an aware value stamped as UTC without being converted
ToUtcByReplace(dt) == ReplaceTzUtc(dt)

\* lines 310-315 and 326-329
ToUtc(dt) == IF ~dt.aware THEN ReplaceTzUtc(dt) ELSE AsTimezoneUtc(dt)

\* the "datetime" entry of a forecast item: a datetime, a str, or a value of
\* another type with its truth value and its str()
DtValue(dt) == [t |-> "datetime", dt |-> dt, s |-> EmptyText, truthy |-> TRUE]

StrValue(s) == [t |-> "str", dt |-> DateTime(0, FALSE, 0), s |-> s, truthy |-> s # EmptyText]

OtherValue(truthy, repr) ==
    [t |-> "other", dt |-> DateTime(0, FALSE, 0), s |-> PlainText(repr), truthy |-> truthy]

\* lines 304-341: dt_str
NormalizeDatetime(item) ==
    IF "datetime" \notin DOMAIN item THEN EmptyText
    ELSE LET dt == item["datetime"]
         IN  IF ~dt.truthy THEN EmptyText
             ELSE IF dt.t = "datetime" THEN IsoFormat(ToUtc(dt.dt))
             ELSE IF dt.t = "str"
                  THEN IF FromIsoFormatRaises(ReplaceZ(dt.s))
                       THEN dt.s
                       ELSE IsoFormat(ToUtc(FromIsoFormat(ReplaceZ(dt.s))))
             ELSE dt.s

ItemGet(item, key, default) == IF key \in DOMAIN item THEN item[key] ELSE default

FilterForecastAttributes(item) ==
    [ condition   |-> ItemGet(item, "condition", "sunny"),
      datetime    |-> NormalizeDatetime(item),
      temperature |-> ItemGet(item, "temperature", 0) ]

\* "a fixed-offset (UTC) ISO-8601 string"
IsUtcIsoText(s) == s.form = "iso" /\ s.zone = "offset" /\ s.off = 0

WallPool == {0, 90, 1380}

OffsetPool == {-300, 0, 60, 330}

DateTimePool ==
    {DateTime(w, FALSE, 0) : w \in WallPool}
        \cup {DateTime(w, TRUE, o) : w \in WallPool, o \in OffsetPool}

StrPool ==
    {IsoText(w, "none", 0) : w \in WallPool}
        \cup {IsoText(w, "Z", 0) : w \in WallPool}
        \cup {IsoText(w, "offset", o) : w \in WallPool, o \in OffsetPool}
        \cup {PlainText("tomorrow"), EmptyText}

DtFieldPool ==
    {DtValue(dt) : dt \in DateTimePool}
        \cup {StrValue(s) : s \in StrPool}
        \cup {OtherValue(TRUE, "1700000000"), OtherValue(FALSE, "0"), OtherValue(FALSE, "None")}

\* a forecast item: any of the four entries may be missing
ItemOf(fields, dt, cond, temp) ==
    [k \in fields |->
        IF k = "datetime" THEN dt
        ELSE IF k = "condition" THEN cond
        ELSE IF k = "temperature" THEN temp
        ELSE 55]

ItemPool ==
    { ItemOf(fields, dt, cond, temp) :
        fields \in SUBSET {"datetime", "condition", "temperature", "humidity"},
        dt \in DtFieldPool, cond \in {"rainy"}, temp \in {-3, 21} }

-----------------------------------------------------------------------------
(* Cover image: lines 239 and 259-270 of _download_and_process_cover       *)

SmallSide == 120

LargeSide == 160

\* COVER_SIZES[size]
CoverSizes(size) ==
    IF size = "small" THEN <<SmallSide, SmallSide>> ELSE <<LargeSide, LargeSide>>

\* Image.thumbnail(target_size): the image is left alone when it fits, and
\* otherwise shrunk so that one side is the target's and the other is the
\* neighbour (floor first, at least 1) of the exact proportional length
\* that keeps the aspect ratio best.
RoundAspectX(w, h, th) ==
    LET f == (th * w) \div h
        c == IF f * h = th * w THEN f ELSE f + 1
    IN  Max(IF Abs(w * th - f * h) <= Abs(w * th - c * h) THEN f ELSE c, 1)

RoundAspectY(w, h, tw) ==
    LET f == (tw * h) \div w
        c == IF f * w = tw * h THEN f ELSE f + 1
    IN  Max(IF f = 0 \/ Abs(w * f - tw * h) * c <= Abs(w * c - tw * h) * f THEN f ELSE c, 1)

\* a thumbnail that only ever scales to the target's width
ThumbnailByWidth(w, h, target) ==
    IF target[1] >= w /\ target[2] >= h THEN <<w, h>>
    ELSE <<target[1], RoundAspectY(w, h, target[1])>>

Thumbnail(w, h, target) ==
    IF target[1] >= w /\ target[2] >= h THEN <<w, h>>
    ELSE IF target[1] * h >= w * target[2]
         THEN <<RoundAspectX(w, h, target[2]), target[2]>>
         ELSE <<target[1], RoundAspectY(w, h, target[1])>>

\* new_img with img pasted: the canvas, the pasted content and its place
ProcessImage(w, h, size) ==
    LET target == CoverSizes(size)
        img == Thumbnail(w, h, target)
    IN  [ width |-> target[1], height |-> target[2],
          content |-> img,
          x |-> (target[1] - img[1]) \div 2,
          y |-> (target[2] - img[2]) \div 2 ]

-----------------------------------------------------------------------------
(* _get_base_url                                                           *)

\* None is written as a text of its own; "" is the empty text
NoneUrl == <<"#None">>

Truthy(u) == u # NoneUrl /\ u # <<>>

HardcodedUrl == <<"http://localhost:", "8123">>

LocalhostUrl(port) == <<"http://localhost:", port>>

\* cfg: entry (is there a config entry), user (its CONF_BASE_URL), get_url
\* (what the helper returns, with get_url_raises), internal, external,
\* port (hass.http.server_port, with port_raises)
GetBaseUrlInternalFirst(cfg) ==
    IF Truthy(cfg.internal) THEN RStripSlash(cfg.internal)
    ELSE IF cfg.entry /\ Truthy(cfg.user) THEN RStripSlash(cfg.user)
    ELSE IF ~cfg.get_url_raises /\ Truthy(cfg.get_url) THEN RStripSlash(cfg.get_url)
    ELSE IF Truthy(cfg.external) THEN RStripSlash(cfg.external)
    ELSE IF ~cfg.port_raises THEN LocalhostUrl(cfg.port)
    ELSE HardcodedUrl

GetBaseUrl(cfg) ==
    IF cfg.entry /\ Truthy(cfg.user) THEN RStripSlash(cfg.user)
    ELSE IF ~cfg.get_url_raises /\ Truthy(cfg.get_url) THEN RStripSlash(cfg.get_url)
    ELSE IF Truthy(cfg.internal) THEN RStripSlash(cfg.internal)
    ELSE IF Truthy(cfg.external) THEN RStripSlash(cfg.external)
    ELSE IF ~cfg.port_raises THEN LocalhostUrl(cfg.port)
    ELSE HardcodedUrl

UrlConfig(entry, user, get_url_raises, get_url, internal, external, port_raises, port) ==
    [ entry |-> entry, user |-> user, get_url_raises |-> get_url_raises,
      get_url |-> get_url, internal |-> internal, external |-> external,
      port_raises |-> port_raises, port |-> port ]

\* what the config flow stores: None, or a trimmed text that starts with a scheme
UserUrlPool ==
    { NoneUrl, <<"https:", "/", "/", "my.ha">>, <<"https:", "/", "/", "my.ha", "/">>,
      <<"http:", "/", "/">> }

\* what the host holds: None, or a URL with or without a trailing slash
HostUrlPool ==
    { NoneUrl, <<>>, <<"http:", "/", "/", "ha.local">>,
      <<"http:", "/", "/", "ha.local", "/", "/">> }

PortPool == {"8123", "8443"}

UrlConfigs ==
    { UrlConfig(entry, user, gr, g, i, e, pr, p) :
        entry \in BOOLEAN, user \in UserUrlPool, gr \in BOOLEAN,
        g \in HostUrlPool \ {NoneUrl},
        i \in HostUrlPool, e \in HostUrlPool, pr \in BOOLEAN, p \in PortPool }

-----------------------------------------------------------------------------
(* Constants of const.py and the host objects                              *)

SENSOR_ENTITY_ID == "sensor.display_tools"

FORECAST_DAILY_SENSOR == "sensor.display_tools_forecast_daily"

FORECAST_HOURLY_SENSOR == "sensor.display_tools_forecast_hourly"

TRANSLATION_CATEGORIES ==
    << "title", "state", "entity", "entity_component", "exceptions", "config",
       "config_subentries", "config_panel", "options", "device_automation",
       "mfa_setup", "system_health", "application_credentials", "issues",
       "selector", "services" >>

FORECAST_TYPES == <<"daily", "hourly">>

COVER_SIZE_NAMES == <<"small", "large">>

ServiceNames ==
    { "get_raw_translations", "get_translations", "get_translations_esphome",
      "save_media_cover", "get_forecasts" }

\* a state object of hass.states: the state is a str or an int
StrState(s) == [t |-> "str", s |-> s, i |-> 0]

IntState(i) == [t |-> "int", s |-> "", i |-> i]

StateObject(state, attributes) == [state |-> state, attributes |-> attributes]

\* hass.states.async_set and async_remove
StatesSet(st, entity, obj) ==
    [e \in DOMAIN st \cup {entity} |-> IF e = entity THEN obj ELSE st[e]]

StatesRemove(st, entity) == [e \in DOMAIN st \ {entity} |-> st[e]]

NoStates == [e \in {} |-> 0]

\* an attribute name as a text: a component's name becomes an attribute too
Attr(name) == <<name>>

\* json.dumps of one component's mapping
JsonDumps(d) == [json |-> d]

\* attributes[component] = json.dumps(component_translations), for each group
RECURSIVE AddComponentAttributes(_, _)
AddComponentAttributes(attributes, grouped) ==
    IF grouped = <<>> THEN attributes
    ELSE AddComponentAttributes(
             DictSet(attributes, Head(grouped)[1], JsonDumps(Head(grouped)[2])),
             Tail(grouped))

\* the host's URL settings with the entry's own: what _get_base_url reads
UrlConfigOf(host, entry, user) ==
    UrlConfig(entry, user, host.get_url_raises, host.get_url, host.internal,
              host.external, host.port_raises, host.port)

-----------------------------------------------------------------------------
(* _fetch_translations_for_category                                        *)

\* the categories the backend holds entries for
PopulatedCategories == {"state", "entity_component"}

\* async_get_translations: the mapping, or an exception when the backend fails
BackendGet(database, category) ==
    IF category \in PopulatedCategories THEN database ELSE <<>>

\* the except branch returns {}
FetchTranslationsForCategory(database, category, fails) ==
    IF fails THEN <<>> ELSE BackendGet(database, category)

-----------------------------------------------------------------------------
(* The keys argument of get_translations_esphome: lines 499-536            *)
(*                                                                         *)
(* A str item carries what json.loads makes of it: nothing (it is no JSON  *)
(* text), a list, or a number.  The value of keys is None, a list or a     *)
(* number.                                                                 *)

NotJson == [ok |-> FALSE, kind |-> "none", items |-> <<>>]

JsonList(items) == [ok |-> TRUE, kind |-> "list", items |-> items]

JsonNumber(n) == [ok |-> TRUE, kind |-> "number", items |-> <<NonStr(n)>>]

RawItem(text, json) == [text |-> text, json |-> json]

KeysNone == [kind |-> "none", items |-> <<>>]

KeysList(items) == [kind |-> "list", items |-> items]

KeysNumber(n) == [kind |-> "number", items |-> n]

\* str.split(',')
Comma == ","

RECURSIVE SplitCommaAcc(_, _, _)
SplitCommaAcc(s, cur, acc) ==
    IF s = <<>> THEN Append(acc, cur)
    ELSE IF Head(s) = Comma THEN SplitCommaAcc(Tail(s), <<>>, Append(acc, cur))
    ELSE SplitCommaAcc(Tail(s), Append(cur, Head(s)), acc)

SplitComma(s) == SplitCommaAcc(s, <<>>, <<>>)

\* [k.strip() for k in item.split(',') if k.strip()]
RECURSIVE StripAll(_)
StripAll(pieces) ==
    IF pieces = <<>> THEN <<>>
    ELSE IF Strip(Head(pieces)) = <<>> THEN StripAll(Tail(pieces))
    ELSE <<Strip(Head(pieces))>> \o StripAll(Tail(pieces))

\* keys_raw: absent (None), or the list of str items the schema makes of it
KeysAbsent == [given |-> FALSE, items |-> <<>>]

KeysGiven(items) == [given |-> TRUE, items |-> items]

ProcessKeys(keys_raw) ==
    IF ~keys_raw.given THEN KeysNone
    ELSE IF Len(keys_raw.items) = 1
         THEN LET single_item == keys_raw.items[1]
              IN  IF single_item.json.ok
                  THEN IF single_item.json.kind = "list"
                       THEN KeysList(single_item.json.items)
                       ELSE KeysNumber(single_item.json.items[1])
                  ELSE KeysList(StripAll(SplitComma(single_item.text)))
         ELSE KeysList([i \in DOMAIN keys_raw.items |-> keys_raw.items[i].text])

\* "if keys:"
KeysTruthy(keys) ==
    \/ keys.kind = "list" /\ keys.items # <<>>
    \/ keys.kind = "number" /\ keys.items # NonStr("0")

\* "len(keys) if keys else 0"
KeysCount(keys) == IF KeysTruthy(keys) /\ keys.kind = "list" THEN Len(keys.items) ELSE 0

-----------------------------------------------------------------------------
(* handle_get_raw_translations and handle_get_translations                 *)
(*                                                                         *)
(* A response is a mapping from field names; it carries "error" only when  *)
(* the except branch built it.  `failing` is the set of categories for     *)
(* which the backend raises during the call.                               *)

RECURSIVE RawCategories(_, _, _)
RawCategories(database, failing, categories) ==
    IF categories = <<>> THEN <<>>
    ELSE LET category == Head(categories)
             translations ==
                 FetchTranslationsForCategory(database, category, category \in failing)
             rest == RawCategories(database, failing, Tail(categories))
         IN  IF translations # <<>> THEN <<<<category, translations>>>> \o rest ELSE rest

GetRawTranslationsEffect(language, failing, database) ==
    LET result == RawCategories(database, failing, TRANSLATION_CATEGORIES)
    IN  [ propagated |-> FALSE,
          response |-> [ language |-> language, categories |-> result,
                         total_categories |-> Len(result) ] ]

\* a handler that counts the fetched mapping instead of the returned one
GetTranslationsEffectCountsFetched(language, category, keys, fails, database) ==
    LET fetched == FetchTranslationsForCategory(database, category, fails)
        translations == IF KeysTruthy(keys)
                        THEN FilterTranslationsByKeys(fetched, keys.items)
                        ELSE fetched
    IN  [ propagated |-> FALSE,
          response |-> [ language |-> language, category |-> category,
                         translations |-> translations,
                         total_translations |-> Len(fetched) ] ]

\* "if keys:" and the filter of lines 474-475; keys is None or a list here
GetTranslationsEffect(language, category, keys, fails, database) ==
    LET fetched == FetchTranslationsForCategory(database, category, fails)
        translations == IF KeysTruthy(keys)
                        THEN FilterTranslationsByKeys(fetched, keys.items)
                        ELSE fetched
    IN  [ propagated |-> FALSE,
          response |-> [ language |-> language, category |-> category,
                         translations |-> translations,
                         total_translations |-> Len(translations) ] ]

-----------------------------------------------------------------------------
(* handle_get_translations_esphome                                         *)

MainAttributes(language, category, translations_count, requested_keys_count, base_url) ==
    << <<Attr("friendly_name"), "Display Tools">>,
       <<Attr("icon"), "mdi:monitor-dashboard">>,
       <<Attr("language"), language>>,
       <<Attr("category"), category>>,
       <<Attr("translations_count"), translations_count>>,
       <<Attr("available_categories"), TRANSLATION_CATEGORIES>>,
       <<Attr("available_cover_sizes"), COVER_SIZE_NAMES>>,
       <<Attr("requested_keys_count"), requested_keys_count>>,
       <<Attr("base_url"), base_url>> >>

MainErrorObject(error) ==
    StateObject(StrState("error"),
        << <<Attr("friendly_name"), "Display Tools">>,
           <<Attr("icon"), "mdi:monitor-off">>,
           <<Attr("error"), error>>,
           <<Attr("available_categories"), TRANSLATION_CATEGORIES>>,
           <<Attr("available_cover_sizes"), COVER_SIZE_NAMES>> >>)

\* faults: the collaborators that fail during the call, among "backend",
\* "load" (store.async_load) and "save" (store.async_save).
\* has_data: hass.data[DOMAIN] is there.
\* The first statement of the try block that raises decides the exception.
EsphomeException(keys, translations, faults, has_data) ==
    IF KeysTruthy(keys) /\ keys.kind = "number" THEN "TypeError"
    ELSE IF GroupRaises(translations) THEN "AttributeError"
    ELSE IF ~has_data THEN "KeyError"
    ELSE IF "load" \in faults THEN "load failed"
    ELSE IF "save" \in faults THEN "save failed"
    ELSE ""

EsphomeTranslations(keys, category, faults, database) ==
    LET fetched == FetchTranslationsForCategory(database, category, "backend" \in faults)
    IN  IF KeysTruthy(keys) /\ keys.kind = "list"
        THEN FilterTranslationsByKeys(fetched, keys.items)
        ELSE fetched

EsphomeEffect(language, category, keys_raw, faults, database, stored, st, has_data, urls) ==
    LET keys == ProcessKeys(keys_raw)
        translations == EsphomeTranslations(keys, category, faults, database)
        exception == EsphomeException(keys, translations, faults, has_data)
        grouped_translations == GroupTranslations(translations)
        attributes ==
            AddComponentAttributes(
                MainAttributes(language, category, Len(translations),
                               KeysCount(keys), GetBaseUrl(urls)),
                grouped_translations)
    IN  IF exception # ""
        THEN [ propagated |-> FALSE, exception |-> exception,
               translations |-> translations,
               store |-> stored,
               states |-> StatesSet(st, SENSOR_ENTITY_ID, MainErrorObject(exception)) ]
        ELSE [ propagated |-> FALSE, exception |-> "",
               translations |-> translations,
               store |-> RecordUpdate(stored,
                   [ language |-> language, category |-> category,
                     grouped_translations |-> grouped_translations,
                     translations_count |-> Len(translations),
                     requested_keys_count |-> KeysCount(keys) ]),
               states |-> StatesSet(st, SENSOR_ENTITY_ID,
                   StateObject(StrState(language), attributes)) ]

-----------------------------------------------------------------------------
(* handle_get_forecasts                                                    *)

ForecastLimit == 12

ForecastKey(forecast_type) == IF forecast_type = "daily" THEN "forecast_daily" ELSE "forecast_hourly"

ForecastSensor(forecast_type) ==
    IF forecast_type = "daily" THEN FORECAST_DAILY_SENSOR ELSE FORECAST_HOURLY_SENSOR

\* str.capitalize() of a forecast type
Capitalize(forecast_type) == IF forecast_type = "daily" THEN "Daily" ELSE "Hourly"

ForecastAttributes(forecast_type, entity_id, type, count, forecasts) ==
    << <<Attr("friendly_name"), <<"Display Tools Forecasts (", Capitalize(forecast_type), ")">> >>,
       <<Attr("icon"), "mdi:weather-partly-cloudy">>,
       <<Attr("entity_id"), entity_id>>,
       <<Attr("type"), type>>,
       <<Attr("count"), count>>,
       <<Attr("forecasts"), forecasts>> >>

ForecastErrorObject(forecast_type, error) ==
    StateObject(StrState("error"),
        << <<Attr("friendly_name"), <<"Display Tools Forecasts (", Capitalize(forecast_type), ")">> >>,
           <<Attr("icon"), "mdi:weather-off">>,
           <<Attr("error"), error>> >>)

\* the response of weather.get_forecasts: None, a mapping without the entity,
\* or a mapping with the entity and its forecast list
NoResponse == [kind |-> "none", forecast |-> <<>>]

OtherEntityResponse == [kind |-> "other", forecast |-> <<>>]

EntityResponse(forecast) == [kind |-> "entity", forecast |-> forecast]

\* lines 664-666
ForecastData(response) == IF response.kind = "entity" THEN response.forecast ELSE <<>>

\* forecast_data[:12] without the limit
TruncateNot(forecast_data) == forecast_data

\* forecast_data[:12]
Truncate(forecast_data) == SubSeq(forecast_data, 1, Min(ForecastLimit, Len(forecast_data)))

FilteredForecasts(forecast_data) ==
    LET kept == Truncate(forecast_data)
    IN  [i \in DOMAIN kept |-> FilterForecastAttributes(kept[i])]

\* faults: among "weather" (the service call), "load" and "save"
ForecastException(faults, has_data) ==
    IF ~has_data THEN "KeyError"
    ELSE IF "load" \in faults THEN "load failed"
    ELSE IF "save" \in faults THEN "save failed"
    ELSE ""

ForecastsTry(entity_id, forecast_type, response, faults, stored, st, has_data) ==
    LET forecast_data == ForecastData(response)
        filtered_forecasts == FilteredForecasts(forecast_data)
        exception == IF "weather" \in faults THEN "weather failed"
                     ELSE IF forecast_data = <<>> THEN ""
                     ELSE ForecastException(faults, has_data)
    IN  IF exception # ""
        THEN [ propagated |-> FALSE, outcome |-> "error", exception |-> exception,
               store |-> stored,
               states |-> StatesSet(st, ForecastSensor(forecast_type),
                              ForecastErrorObject(forecast_type, exception)) ]
        ELSE IF forecast_data = <<>>
        THEN [ propagated |-> FALSE, outcome |-> "no_data", exception |-> "",
               store |-> stored, states |-> st ]
        ELSE [ propagated |-> FALSE, outcome |-> "published", exception |-> "",
               store |-> RecordUpdate(stored,
                   [k \in {ForecastKey(forecast_type)} |->
                       [ entity_id |-> entity_id, type |-> forecast_type,
                         forecasts |-> filtered_forecasts,
                         count |-> Len(filtered_forecasts) ]]),
               states |-> StatesSet(st, ForecastSensor(forecast_type),
                   StateObject(IntState(Len(filtered_forecasts)),
                       ForecastAttributes(forecast_type, entity_id, forecast_type,
                           Len(filtered_forecasts), filtered_forecasts))) ]

\* the handler with the service call made before its try block
ForecastsEffectCallOutsideTry(entity_id, forecast_type, response, faults, stored, st, has_data) ==
    IF "weather" \in faults
    THEN [ propagated |-> TRUE, outcome |-> "error", exception |-> "weather failed",
           store |-> stored, states |-> st ]
    ELSE ForecastsTry(entity_id, forecast_type, response, faults, stored, st, has_data)

\* a handler that reports a response without forecasts as an error
ForecastsEffectErrorOnNoData(entity_id, forecast_type, response, faults, stored, st, has_data) ==
    LET done == ForecastsTry(entity_id, forecast_type, response, faults, stored, st, has_data)
    IN  IF done.outcome = "no_data"
        THEN [done EXCEPT !.states =
                  StatesSet(st, ForecastSensor(forecast_type),
                      ForecastErrorObject(forecast_type, "no forecast data"))]
        ELSE done

\* lines 647-732: everything the handler does is inside its try block
ForecastsEffect(entity_id, forecast_type, response, faults, stored, st, has_data) ==
    ForecastsTry(entity_id, forecast_type, response, faults, stored, st, has_data)

-----------------------------------------------------------------------------
(* _download_and_process_cover and handle_save_media_cover                 *)

NoFile == [kind |-> "none", image |-> <<>>]

ImageFile(image) == [kind |-> "image", image |-> <<image>>]

\* what an interrupted new_img.save may leave behind
PartialFile == [kind |-> "partial", image |-> <<>>]

FileSystem(dir, file) == [dir |-> dir, file |-> file]

RelativePicture == <<"/", "api", "/", "cover">>

AbsolutePicture == <<"https:", "/", "/", "cdn", "/", "cover">>

\* player: "missing" (no state), "no_picture", "relative" or "absolute"
EntityPicture(player) == IF player = "relative" THEN RelativePicture ELSE AbsolutePicture

\* lines 225-236
ImageUrl(player, urls) ==
    IF Head(EntityPicture(player)) = Slash
    THEN GetBaseUrl(urls) \o EntityPicture(player)
    ELSE EntityPicture(player)

\* download: "ok", "status" (a status other than 200) or "raises";
\* image: decodes (Image.open and the resize succeed), w, h;
\* faults: among "makedirs" and "save"; save_leaves: what a failed save left.
\* The stage is the last step the call reached.
CoverStage(player, download, image, faults, has_data) ==
    IF player = "missing" THEN "no_entity"
    ELSE IF player = "no_picture" THEN "no_picture"
    ELSE IF player = "relative" /\ ~has_data THEN "no_data"
    ELSE IF download = "raises" THEN "download_error"
    ELSE IF download = "status" THEN "bad_status"
    ELSE IF ~image.decodes THEN "decode_error"
    ELSE IF "makedirs" \in faults THEN "makedirs_error"
    ELSE IF "save" \in faults THEN "save_error"
    ELSE "saved"

\* the output directory made as soon as the download has succeeded
CoverFilesDirFirst(stage, image, size, save_leaves, files) ==
    IF stage = "saved"
    THEN FileSystem(TRUE, ImageFile(ProcessImage(image.w, image.h, size)))
    ELSE IF stage = "save_error"
    THEN FileSystem(TRUE, IF save_leaves = "partial" THEN PartialFile ELSE files.file)
    ELSE IF stage = "decode_error"
    THEN FileSystem(TRUE, files.file)
    ELSE files

\* lines 272-278: os.makedirs, then new_img.save
CoverFiles(stage, image, size, save_leaves, files) ==
    IF stage = "saved"
    THEN FileSystem(TRUE, ImageFile(ProcessImage(image.w, image.h, size)))
    ELSE IF stage = "save_error"
    THEN FileSystem(TRUE, IF save_leaves = "partial" THEN PartialFile ELSE files.file)
    ELSE files

DownloadAndProcessCover(player, size, download, image, faults, save_leaves, files, has_data, urls) ==
    LET stage == CoverStage(player, download, image, faults, has_data)
    IN  [ result |-> stage = "saved", stage |-> stage,
          image_url |-> IF stage \in {"no_entity", "no_picture", "no_data"}
                        THEN <<>> ELSE ImageUrl(player, urls),
          fs |-> CoverFiles(stage, image, size, save_leaves, files) ]

SaveMediaCoverEffect(player, size, download, image, faults, save_leaves, files, has_data, urls) ==
    LET done == DownloadAndProcessCover(player, size, download, image, faults,
                                        save_leaves, files, has_data, urls)
    IN  [ propagated |-> FALSE, success |-> done.result, stage |-> done.stage,
          image_url |-> done.image_url, fs |-> done.fs ]

-----------------------------------------------------------------------------
(* async_setup_entry and async_unload_entry                                *)

RecGet(record, key, default) == IF key \in DOMAIN record THEN record[key] ELSE default

\* a restore of the main sensor that leaves the component attributes out
RestoredMainObjectWithoutComponents(stored_data, base_url) ==
    IF stored_data # NoRecord
    THEN StateObject(StrState(RecGet(stored_data, "language", "empty")),
             MainAttributes(RecGet(stored_data, "language", "unknown"),
                            RecGet(stored_data, "category", "unknown"),
                            RecGet(stored_data, "translations_count", 0),
                            RecGet(stored_data, "requested_keys_count", 0),
                            base_url))
    ELSE StateObject(StrState("empty"),
             << <<Attr("friendly_name"), "Display Tools">>,
                <<Attr("icon"), "mdi:monitor-dashboard">>,
                <<Attr("available_categories"), TRANSLATION_CATEGORIES>>,
                <<Attr("available_cover_sizes"), COVER_SIZE_NAMES>>,
                <<Attr("base_url"), base_url>> >>)

\* lines 370-394 and 422-434: the main sensor
RestoredMainObject(stored_data, base_url) ==
    IF stored_data # NoRecord
    THEN StateObject(StrState(RecGet(stored_data, "language", "empty")),
             AddComponentAttributes(
                 MainAttributes(RecGet(stored_data, "language", "unknown"),
                                RecGet(stored_data, "category", "unknown"),
                                RecGet(stored_data, "translations_count", 0),
                                RecGet(stored_data, "requested_keys_count", 0),
                                base_url),
                 RecGet(stored_data, "grouped_translations", <<>>)))
    ELSE StateObject(StrState("empty"),
             << <<Attr("friendly_name"), "Display Tools">>,
                <<Attr("icon"), "mdi:monitor-dashboard">>,
                <<Attr("available_categories"), TRANSLATION_CATEGORIES>>,
                <<Attr("available_cover_sizes"), COVER_SIZE_NAMES>>,
                <<Attr("base_url"), base_url>> >>)

\* a restore that sets the count and leaves the forecasts out
RestoredForecastObjectWithoutList(forecast_type, forecast_info) ==
    StateObject(IntState(RecGet(forecast_info, "count", 0)),
        ForecastAttributes(forecast_type,
            RecGet(forecast_info, "entity_id", "None"),
            RecGet(forecast_info, "type", "None"),
            RecGet(forecast_info, "count", 0),
            <<>>))

\* lines 399-418: one forecast sensor
RestoredForecastObject(forecast_type, forecast_info) ==
    StateObject(IntState(RecGet(forecast_info, "count", 0)),
        ForecastAttributes(forecast_type,
            RecGet(forecast_info, "entity_id", "None"),
            RecGet(forecast_info, "type", "None"),
            RecGet(forecast_info, "count", 0),
            RecGet(forecast_info, "forecasts", <<>>)))

RECURSIVE RestoreForecasts(_, _, _)
RestoreForecasts(st, stored_data, types) ==
    IF types = <<>> THEN st
    ELSE LET forecast_type == Head(types)
             next == IF ForecastKey(forecast_type) \in DOMAIN stored_data
                     THEN StatesSet(st, ForecastSensor(forecast_type),
                              RestoredForecastObject(forecast_type,
                                  stored_data[ForecastKey(forecast_type)]))
                     ELSE st
         IN  RestoreForecasts(next, stored_data, Tail(types))

\* a setup that restores the main sensor only
SetupStatesMainOnly(st, stored_data, base_url) ==
    StatesSet(st, SENSOR_ENTITY_ID, RestoredMainObject(stored_data, base_url))

SetupStates(st, stored_data, base_url) ==
    LET main == StatesSet(st, SENSOR_ENTITY_ID, RestoredMainObject(stored_data, base_url))
    IN  IF stored_data # NoRecord
        THEN RestoreForecasts(main, stored_data, FORECAST_TYPES)
        ELSE main

UnloadStates(st) ==
    StatesRemove(StatesRemove(StatesRemove(st, SENSOR_ENTITY_ID),
        FORECAST_DAILY_SENSOR), FORECAST_HOURLY_SENSOR)

-----------------------------------------------------------------------------
(* The operations as actions                                               *)

\* no service call in flight
NoTasks == <<>>

NoPure == [fn |-> "none", done |-> TRUE, in |-> <<>>, out |-> <<>>]

Urls == UrlConfigOf(hostUrl, TRUE, entryUrl)

\* entryUrl before the config flow has created the entry
NoEntry == <<"#NoEntry">>

AsyncSetupEntry ==
    /\ pure = NoPure
    /\ entryUrl # NoEntry
    /\ services = {}
    /\ domainData' = TRUE
    /\ states' = SetupStates(states, store, GetBaseUrl(Urls))
    /\ services' = ServiceNames
    /\ last' = [op |-> "setup", propagated |-> FALSE]
    /\ UNCHANGED <<db, hostUrl, entryUrl, store, fs, pure, tasks>>

AsyncUnloadEntry ==
    /\ pure = NoPure
    /\ services = ServiceNames
    /\ services' = {}
    /\ states' = UnloadStates(states)
    /\ domainData' = FALSE
    /\ last' = [op |-> "unload", propagated |-> FALSE, removed |-> states]
    /\ UNCHANGED <<db, hostUrl, entryUrl, store, fs, pure, tasks>>

HandleGetRawTranslations(language, failing) ==
    /\ "get_raw_translations" \in services
    /\ LET eff == GetRawTranslationsEffect(language, failing, db)
       IN  last' = [ op |-> "get_raw_translations", language |-> language,
                     failing |-> failing, response |-> eff.response,
                     propagated |-> eff.propagated ]
    /\ UNCHANGED <<db, hostUrl, entryUrl, services, domainData, store, states, fs,
                   pure, tasks>>

HandleGetTranslations(language, category, keys, fails) ==
    /\ "get_translations" \in services
    /\ LET eff == GetTranslationsEffect(language, category, keys, fails, db)
       IN  last' = [ op |-> "get_translations", language |-> language,
                     category |-> category, keys |-> keys, fails |-> fails,
                     response |-> eff.response, propagated |-> eff.propagated ]
    /\ UNCHANGED <<db, hostUrl, entryUrl, services, domainData, store, states, fs,
                   pure, tasks>>

HandleGetTranslationsEsphome(language, category, keys_raw, faults) ==
    /\ "get_translations_esphome" \in services
    /\ LET eff == EsphomeEffect(language, category, keys_raw, faults, db, store,
                                states, domainData, Urls)
       IN  /\ store' = eff.store
           /\ states' = eff.states
           /\ last' = [ op |-> "get_translations_esphome", language |-> language,
                        category |-> category, keys |-> ProcessKeys(keys_raw),
                        faults |-> faults, translations |-> eff.translations,
                        exception |-> eff.exception, propagated |-> eff.propagated ]
    /\ UNCHANGED <<db, hostUrl, entryUrl, services, domainData, fs, pure, tasks>>

HandleSaveMediaCover(player, size, download, image, faults, save_leaves) ==
    /\ "save_media_cover" \in services
    /\ LET eff == SaveMediaCoverEffect(player, size, download, image, faults,
                                       save_leaves, fs, domainData, Urls)
       IN  /\ fs' = eff.fs
           /\ last' = [ op |-> "save_media_cover", player |-> player, size |-> size,
                        download |-> download, image |-> image, faults |-> faults,
                        success |-> eff.success, stage |-> eff.stage,
                        image_url |-> eff.image_url, propagated |-> eff.propagated ]
    /\ UNCHANGED <<db, hostUrl, entryUrl, services, domainData, store, states, pure, tasks>>

HandleGetForecasts(entity_id, forecast_type, response, faults) ==
    /\ "get_forecasts" \in services
    /\ LET eff == ForecastsEffect(entity_id, forecast_type, response, faults,
                                  store, states, domainData)
       IN  /\ store' = eff.store
           /\ states' = eff.states
           /\ last' = [ op |-> "get_forecasts", entity_id |-> entity_id,
                        type |-> forecast_type, response |-> response,
                        faults |-> faults, outcome |-> eff.outcome,
                        exception |-> eff.exception, propagated |-> eff.propagated ]
    /\ UNCHANGED <<db, hostUrl, entryUrl, services, domainData, fs, pure, tasks>>

-----------------------------------------------------------------------------
(* The helpers applied on their own: a call is drawn, then made            *)

PureCall(fn, in) == [fn |-> fn, done |-> FALSE, in |-> in, out |-> <<>>]

Idle == [op |-> "init", propagated |-> FALSE]

ApplyPure(fn, out) ==
    /\ pure.fn = fn
    /\ ~pure.done
    /\ pure' = [pure EXCEPT !.done = TRUE, !.out = out]
    /\ UNCHANGED <<db, hostUrl, entryUrl, services, domainData, store, states, fs,
                   last, tasks>>

ApplyFilter == ApplyPure("filter", FilterTranslationsByKeys(pure.in[1], pure.in[2]))

ApplyFilterForecast == ApplyPure("forecast", FilterForecastAttributes(pure.in))

ApplyProcessImage == ApplyPure("image", ProcessImage(pure.in[1], pure.in[2], pure.in[3]))

ApplyGetBaseUrl == ApplyPure("base_url", GetBaseUrl(pure.in))

FilterKeyPool ==
    { K_VacuumStateCleaning, K_CoverStateOpening, K_StateVacuumCleaning, K_Empty }

FilterDicts == {d \in SeqsUpTo(FilterKeyPool \X ValuePool, MaxEntries) : IsDict(d)}

FilterKeyLists == SeqsUpTo(FilterKeyPool, MaxKeys)

DrawPure ==
    \/ \E d \in FilterDicts, keys \in FilterKeyLists : pure = PureCall("filter", <<d, keys>>)
    \/ \E item \in ItemPool : pure = PureCall("forecast", item)
    \/ \E w \in 1..MaxImageDim, h \in 1..MaxImageDim, size \in {"small", "large"} :
           pure = PureCall("image", <<w, h, size>>)
    \/ \E cfg \in UrlConfigs : pure = PureCall("base_url", cfg)

-----------------------------------------------------------------------------
(* Inputs of the handlers                                                  *)

DefaultHost ==
    [ get_url_raises |-> TRUE, get_url |-> <<>>,
      internal |-> <<"http:", "/", "/", "ha.local", "/">>, external |-> NoneUrl,
      port_raises |-> FALSE, port |-> "8123" ]

MainDb ==
    << <<K_VacuumStateCleaning, <<"Cleaning">>>>,
       <<K_VacuumAttrCleaning, <<"Docked">>>>,
       <<K_CoverStateOpening, <<"Opening">>>>,
       <<K_StateVacuumCleaning, <<"Cleaning">>>> >>

Languages == {"en", "ru"}

PlainItem(key) == RawItem(key, NotJson)

CsvItem ==
    RawItem(<<Space>> \o K_VacuumStateCleaning \o <<Space, Comma, Comma, Space>>
                \o K_ComponentOnly,
            NotJson)

JsonListItem == RawItem(<<"[json list]">>, JsonList(<<K_VacuumAttrCleaning, K_ComponentDot>>))

JsonNumbersItem == RawItem(<<"[json numbers]">>, JsonList(<<NonStr("1")>>))

JsonNumberItem(n) == RawItem(<<n>>, JsonNumber(n))

SmallKeysRawPool ==
    { KeysAbsent,
      KeysGiven(<<PlainItem(K_VacuumStateCleaning), PlainItem(K_ComponentVacuum)>>) }

KeysRawPool ==
    SmallKeysRawPool \cup
    { KeysGiven(<<>>),
      KeysGiven(<<CsvItem>>),
      KeysGiven(<<JsonListItem>>),
      KeysGiven(<<JsonNumbersItem>>),
      KeysGiven(<<JsonNumberItem("5")>>),
      KeysGiven(<<JsonNumberItem("0")>>) }

\* the keys of get_translations: None or a list of str
KeysPool ==
    { KeysNone, KeysList(<<>>),
      KeysList(<<K_VacuumStateCleaning, K_ComponentVacuum>>),
      KeysList(<<K_CoverStateOpening, K_CoverStateOpening>>),
      KeysList(<<K_Empty>>) }

SmallKeysPool == {KeysNone, KeysList(<<K_VacuumStateCleaning, K_ComponentVacuum>>)}

FailingPool == {{}, {"state"}, Range(TRANSLATION_CATEGORIES)}

\* forecast lists: the i-th item carries temperature i, and the items differ
\* in what their "datetime" holds and in which entries they have
ItemShapes ==
    << <<{"datetime", "condition", "temperature", "humidity"}, DtValue(DateTime(90, TRUE, 60))>>,
       <<{"datetime", "temperature"}, StrValue(IsoText(1380, "Z", 0))>>,
       <<{"datetime", "condition", "temperature"}, DtValue(DateTime(0, FALSE, 0))>>,
       <<{"condition", "temperature"}, StrValue(EmptyText)>>,
       <<{"datetime", "condition", "temperature"}, StrValue(PlainText("tomorrow"))>> >>

ForecastList(n, seed) ==
    [i \in 1..n |->
        LET shape == ItemShapes[((i + seed) % Len(ItemShapes)) + 1]
        IN  ItemOf(shape[1], shape[2], "rainy", i)]

ResponsePool ==
    {NoResponse, OtherEntityResponse}
        \cup {EntityResponse(ForecastList(n, seed)) : n \in 0..MaxForecasts, seed \in {0, 1}}

SmallResponsePool == {NoResponse, EntityResponse(ForecastList(MaxForecasts, 1))}

ImageDims == {1, 7, SmallSide, LargeSide, LargeSide + 1, 500}

ImagePool ==
    {[decodes |-> FALSE, w |-> 1, h |-> 1]}
        \cup {[decodes |-> TRUE, w |-> w, h |-> h] : w \in ImageDims, h \in ImageDims}

SmallImagePool == {[decodes |-> FALSE, w |-> 1, h |-> 1], [decodes |-> TRUE, w |-> 500, h |-> 7]}

Players == {"missing", "no_picture", "relative", "absolute"}

Downloads == {"ok", "status", "raises"}

-----------------------------------------------------------------------------
(* Specifications                                                          *)

\* records persisted by earlier calls
PriorTranslationsStore ==
    EsphomeEffect("ru", "state", KeysAbsent, {}, MainDb, NoRecord, NoStates, TRUE,
                  UrlConfigOf(DefaultHost, TRUE, NoneUrl)).store

PriorForecastsStore ==
    ForecastsEffect("weather.home", "daily", EntityResponse(ForecastList(2, 0)), {},
                    PriorTranslationsStore, NoStates, TRUE).store

PriorStores == {NoRecord, PriorTranslationsStore, PriorForecastsStore}

\* the cover directory before the call: absent, or with an earlier cover
PriorFiles ==
    { FileSystem(FALSE, NoFile), FileSystem(TRUE, NoFile),
      FileSystem(TRUE, ImageFile(ProcessImage(300, 300, "large"))) }

\* <<player, download, image, faults>>
SmallCoverScenarios ==
    { <<"missing", "ok", [decodes |-> TRUE, w |-> 500, h |-> 7], {}>>,
      <<"absolute", "ok", [decodes |-> FALSE, w |-> 1, h |-> 1], {}>>,
      <<"relative", "ok", [decodes |-> TRUE, w |-> 500, h |-> 7], {}>>,
      <<"relative", "ok", [decodes |-> TRUE, w |-> 500, h |-> 7], {"save"}>> }

\* before async_setup_entry: nothing registered
InitHost(dbs, entryUrls, stores, files) ==
    /\ db \in dbs
    /\ hostUrl = DefaultHost
    /\ entryUrl \in entryUrls
    /\ services = {}
    /\ domainData = FALSE
    /\ store \in stores
    /\ states = NoStates
    /\ fs \in files
    /\ last = Idle
    /\ pure = NoPure
    /\ tasks = NoTasks

\* the whole integration: every operation, on a few inputs each
Init == InitHost({MainDb}, {NoneUrl}, {NoRecord}, {FileSystem(FALSE, NoFile)})

Next ==
    \/ AsyncSetupEntry
    \/ AsyncUnloadEntry
    \/ \E failing \in {{}, {"state"}} :
           HandleGetRawTranslations("en", failing)
    \/ \E keys \in SmallKeysPool, fails \in BOOLEAN :
           HandleGetTranslations("en", "state", keys, fails)
    \/ \E language \in Languages, faults \in {{}, {"save"}} :
           HandleGetTranslationsEsphome(language, "state", KeysAbsent, faults)
    \/ \E scenario \in SmallCoverScenarios :
           HandleSaveMediaCover(scenario[1], "small", scenario[2], scenario[3],
                                scenario[4], "partial")
    \/ \E forecast_type \in Range(FORECAST_TYPES), response \in SmallResponsePool,
          faults \in {{}, {"weather"}} :
           HandleGetForecasts("weather.home", forecast_type, response, faults)

Spec == Init /\ [][Next]_vars

\* In the specifications below the integration is set up over a persisted
\* record left by earlier calls, and one service call is made with every
\* input of the pools.
FirstCall == last.op = "setup"

\* the translation services over every backend mapping of the pools
InitTranslations ==
    InitHost(Dicts, {NoneUrl}, {NoRecord, PriorForecastsStore}, {FileSystem(FALSE, NoFile)})

NextTranslations ==
    \/ AsyncSetupEntry
    \/ /\ FirstCall
       /\ \E failing \in FailingPool : HandleGetRawTranslations("en", failing)
    \/ /\ FirstCall
       /\ \E keys \in KeysPool, fails \in BOOLEAN :
              HandleGetTranslations("en", "state", keys, fails)
    \/ /\ FirstCall
       /\ \E keys_raw \in KeysRawPool,
             faults \in {{}, {"backend"}, {"load"}, {"save"}, {"backend", "save"}} :
              HandleGetTranslationsEsphome("en", "state", keys_raw, faults)

SpecTranslations == InitTranslations /\ [][NextTranslations]_vars

\* get_forecasts over every response of the pool
InitForecasts ==
    InitHost({MainDb}, {NoneUrl}, PriorStores, {FileSystem(FALSE, NoFile)})

NextForecasts ==
    \/ AsyncSetupEntry
    \/ /\ FirstCall
       /\ \E forecast_type \in Range(FORECAST_TYPES), response \in ResponsePool,
             faults \in SUBSET {"weather", "load", "save"} :
              HandleGetForecasts("weather.home", forecast_type, response, faults)

SpecForecasts == InitForecasts /\ [][NextForecasts]_vars

\* save_media_cover over every image of the pool
InitCover ==
    InitHost({MainDb}, {NoneUrl, <<"https:", "/", "/", "my.ha", "/">>}, {NoRecord}, PriorFiles)

NextCover ==
    \/ AsyncSetupEntry
    \/ /\ FirstCall
       /\ \E player \in Players, size \in {"small", "large"}, download \in Downloads,
             image \in ImagePool, faults \in SUBSET {"makedirs", "save"},
             save_leaves \in {"unchanged", "partial"} :
              HandleSaveMediaCover(player, size, download, image, faults, save_leaves)

SpecCover == InitCover /\ [][NextCover]_vars

\* every handler with every combination of failing collaborators
InitFaults ==
    InitHost({MainDb}, {NoneUrl}, {NoRecord, PriorForecastsStore}, PriorFiles)

NextFaults ==
    \/ AsyncSetupEntry
    \/ /\ FirstCall
       /\ \E failing \in FailingPool : HandleGetRawTranslations("en", failing)
    \/ /\ FirstCall
       /\ \E keys \in SmallKeysPool, fails \in BOOLEAN :
              HandleGetTranslations("en", "state", keys, fails)
    \/ /\ FirstCall
       /\ \E keys_raw \in SmallKeysRawPool, faults \in SUBSET {"backend", "load", "save"} :
              HandleGetTranslationsEsphome("en", "state", keys_raw, faults)
    \/ /\ FirstCall
       /\ \E player \in Players, download \in Downloads, image \in SmallImagePool,
             faults \in SUBSET {"makedirs", "save"}, save_leaves \in {"unchanged", "partial"} :
              HandleSaveMediaCover(player, "large", download, image, faults, save_leaves)
    \/ /\ FirstCall
       /\ \E forecast_type \in Range(FORECAST_TYPES), response \in SmallResponsePool,
             faults \in SUBSET {"weather", "load", "save"} :
              HandleGetForecasts("weather.home", forecast_type, response, faults)

SpecFaults == InitFaults /\ [][NextFaults]_vars

\* the helpers, each applied to every input of its pool
InitPure ==
    /\ db = <<>>
    /\ hostUrl = DefaultHost
    /\ entryUrl = NoneUrl
    /\ services = {}
    /\ domainData = FALSE
    /\ store = NoRecord
    /\ states = NoStates
    /\ fs = FileSystem(FALSE, NoFile)
    /\ last = Idle
    /\ tasks = NoTasks
    /\ DrawPure

NextPure ==
    \/ ApplyFilter
    \/ ApplyFilterForecast
    \/ ApplyProcessImage
    \/ ApplyGetBaseUrl

SpecPure == InitPure /\ [][NextPure]_vars

-----------------------------------------------------------------------------
(* The config flow and the options flow (config_flow.py)                   *)
(*                                                                         *)
(* entryUrl is the CONF_BASE_URL of the config entry, NoEntry while there  *)
(* is no entry.  user_input is None (the form is opened), or a mapping     *)
(* that may hold a base URL.                                               *)

NoInput == [submitted |-> FALSE, has_url |-> FALSE, url |-> <<>>]

InputWithout == [submitted |-> TRUE, has_url |-> FALSE, url |-> <<>>]

InputWith(url) == [submitted |-> TRUE, has_url |-> TRUE, url |-> url]

\* str.startswith(prefix)
StartsWith(s, prefix) == Len(s) >= Len(prefix) /\ SubSeq(s, 1, Len(prefix)) = prefix

\* a check that accepts http:// only
ValidSchemeHttpOnly(base_url) == StartsWith(base_url, <<"http:", "/", "/">>)

\* base_url.startswith(("http://", "https://"))
ValidScheme(base_url) ==
    \/ StartsWith(base_url, <<"http:", "/", "/">>)
    \/ StartsWith(base_url, <<"https:", "/", "/">>)

\* user_input.get(CONF_BASE_URL, "").strip()
SubmittedUrl(user_input) == Strip(IF user_input.has_url THEN user_input.url ELSE <<>>)

\* "base_url if base_url else None"
EntryData(base_url) == IF base_url # <<>> THEN base_url ELSE NoneUrl

AbortResult(reason) == [type |-> "abort", reason |-> reason, errors |-> {}]

FormResult(errors) == [type |-> "form", reason |-> "", errors |-> errors]

CreateEntryResult == [type |-> "create_entry", reason |-> "", errors |-> {}]

\* lines 23-56 and 76-109: result is what the step returns, entry what the
\* config entry's base URL is afterwards
FlowStep(user_input, entry) ==
    IF ~user_input.submitted
    THEN [result |-> FormResult({}), entry |-> entry]
    ELSE LET base_url == SubmittedUrl(user_input)
         IN  IF base_url # <<>> /\ ~ValidScheme(base_url)
             THEN [result |-> FormResult({<<"base_url", "invalid_url">>}), entry |-> entry]
             ELSE [result |-> CreateEntryResult, entry |-> EntryData(base_url)]

\* DisplayToolsConfigFlow.async_step_user
AsyncStepUser(user_input) ==
    /\ pure = NoPure
    /\ LET step == IF entryUrl # NoEntry
                   THEN [result |-> AbortResult("single_instance_allowed"), entry |-> entryUrl]
                   ELSE FlowStep(user_input, entryUrl)
       IN  /\ entryUrl' = step.entry
           /\ last' = [ op |-> "step_user", user_input |-> user_input,
                        result |-> step.result, propagated |-> FALSE ]
    /\ UNCHANGED <<db, hostUrl, services, domainData, store, states, fs, pure, tasks>>

\* DisplayToolsOptionsFlow.async_step_init: the flow of an existing entry
AsyncStepInit(user_input) ==
    /\ pure = NoPure
    /\ entryUrl # NoEntry
    /\ LET step == FlowStep(user_input, entryUrl)
       IN  /\ entryUrl' = step.entry
           /\ last' = [ op |-> "step_init", user_input |-> user_input,
                        result |-> step.result, propagated |-> FALSE ]
    /\ UNCHANGED <<db, hostUrl, services, domainData, store, states, fs, pure, tasks>>

\* what a user may type into the form
FlowUrlPool ==
    { <<>>, <<Space, Space>>,
      <<"https:", "/", "/", "my.ha">>,
      <<Space, "https:", "/", "/", "my.ha", "/", Space>>,
      <<"http:", "/", "/", "ha.local">>,
      <<"http:", "/", "/">>,
      <<"http:", "/", "ha.local">>,
      <<"HTTP:", "/", "/", "ha.local">>,
      <<"ftp:", "/", "/", "my.ha">>,
      <<"my.ha">>,
      <<Space, "my.ha", Space, "http:", "/", "/">> }

FlowInputs == {NoInput, InputWithout} \cup {InputWith(url) : url \in FlowUrlPool}

\* the entry is created by the user step, changed by the options flow, and
\* set up once it exists
InitConfigFlow ==
    InitHost({MainDb}, {NoEntry}, {NoRecord}, {FileSystem(FALSE, NoFile)})

NextConfigFlow ==
    \/ \E user_input \in FlowInputs : AsyncStepUser(user_input)
    \/ \E user_input \in FlowInputs : AsyncStepInit(user_input)
    \/ AsyncSetupEntry
    \/ AsyncUnloadEntry

SpecConfigFlow == InitConfigFlow /\ [][NextConfigFlow]_vars

-----------------------------------------------------------------------------
(* Service calls as tasks of the event loop                                *)
(*                                                                         *)
(* A handler runs until its next await and is resumed when the awaited     *)
(* call has returned; between the two, other tasks run.  The handlers that *)
(* write the record await the backend or the weather service, then         *)
(* store.async_load, then store.async_save.  A task is suspended at        *)
(* pc: "call", "load" or "save", is at "publish" when the save has been    *)
(* done and it has not been resumed yet, and "done" afterwards;            *)
(* stored_data is the handler's local variable.  async_load returns the    *)
(* record as it is persisted when the load is done, async_save persists    *)
(* the record it is given.                                                 *)

ForecastsCall(forecast_type) == [op |-> "get_forecasts", arg |-> forecast_type]

EsphomeCall(language) == [op |-> "get_translations_esphome", arg |-> language]

Task(call, pc, stored_data) == [call |-> call, pc |-> pc, stored_data |-> stored_data]

\* the response the weather service gives to the calls in flight
TaskResponse == EntityResponse(ForecastList(3, 1))

\* what the handler has in stored_data when it calls store.async_save
\* (lines 562-571 and 685-694), given what store.async_load returned
TaskStoredData(call, loaded, database, st, urls) ==
    IF call.op = "get_forecasts"
    THEN ForecastsEffect("weather.home", call.arg, TaskResponse, {}, loaded, st, TRUE).store
    ELSE EsphomeEffect(call.arg, "state", KeysAbsent, {}, database, loaded, st, TRUE, urls).store

\* the sensor the handler sets once the save has returned (lines 597-601
\* and 711-715)
TaskStates(call, database, st, urls) ==
    IF call.op = "get_forecasts"
    THEN ForecastsEffect("weather.home", call.arg, TaskResponse, {}, NoRecord, st, TRUE).states
    ELSE EsphomeEffect(call.arg, "state", KeysAbsent, {}, database, NoRecord, st, TRUE, urls).states

\* the host starts the handler, which runs up to its first await
TaskStart(call) ==
    /\ call.op \in services
    /\ Len(tasks) < MaxTasks
    /\ tasks' = Append(tasks, Task(call, "call", NoRecord))
    /\ UNCHANGED <<db, hostUrl, entryUrl, services, domainData, store, states, fs,
                   last, pure>>

\* the backend or the weather service has answered: the handler runs up to
\* "await store.async_load()"
TaskCalled(id) ==
    /\ id \in DOMAIN tasks
    /\ tasks[id].pc = "call"
    /\ tasks' = [tasks EXCEPT ![id].pc = "load"]
    /\ UNCHANGED <<db, hostUrl, entryUrl, services, domainData, store, states, fs,
                   last, pure>>

\* the load has returned the record: the handler updates it and runs up to
\* "await store.async_save(stored_data)"
TaskLoaded(id) ==
    /\ id \in DOMAIN tasks
    /\ tasks[id].pc = "load"
    /\ tasks' = [tasks EXCEPT
                     ![id].pc = "save",
                     ![id].stored_data =
                         TaskStoredData(tasks[id].call, store, db, states, Urls)]
    /\ UNCHANGED <<db, hostUrl, entryUrl, services, domainData, store, states, fs,
                   last, pure>>

\* the host has written the record it was given
TaskSaved(id) ==
    /\ id \in DOMAIN tasks
    /\ tasks[id].pc = "save"
    /\ store' = tasks[id].stored_data
    /\ tasks' = [tasks EXCEPT ![id].pc = "publish"]
    /\ UNCHANGED <<db, hostUrl, entryUrl, services, domainData, states, fs, last, pure>>

\* the handler is resumed after the save, sets its sensor and returns
TaskPublished(id) ==
    /\ id \in DOMAIN tasks
    /\ tasks[id].pc = "publish"
    /\ states' = TaskStates(tasks[id].call, db, states, Urls)
    /\ tasks' = [tasks EXCEPT ![id].pc = "done"]
    /\ UNCHANGED <<db, hostUrl, entryUrl, services, domainData, store, fs, last, pure>>

TaskCalls == {EsphomeCall("en"), ForecastsCall("daily"), ForecastsCall("hourly")}

\* up to MaxTasks calls in flight at once, over an empty record or one
\* written by earlier calls
InitOverlap ==
    InitHost({MainDb}, {NoneUrl}, {NoRecord, PriorForecastsStore},
             {FileSystem(FALSE, NoFile)})

NextOverlap ==
    \/ AsyncSetupEntry
    \/ \E call \in TaskCalls : TaskStart(call)
    \/ \E id \in 1..MaxTasks : TaskCalled(id)
    \/ \E id \in 1..MaxTasks : TaskLoaded(id)
    \/ \E id \in 1..MaxTasks : TaskSaved(id)
    \/ \E id \in 1..MaxTasks : TaskPublished(id)

SpecOverlap == InitOverlap /\ [][NextOverlap]_vars

-----------------------------------------------------------------------------
(* Properties *)

FilterCalled == pure.fn = "filter" /\ pure.done

\* C1: _filter_translations_by_keys with a non-empty key list returns a
\* mapping whose keys are exactly the requested keys; a requested key that the
\* source mapping holds maps to its source value, and one it does not hold
\* maps to the key itself.
C1_FilterByKeys ==
    (FilterCalled /\ pure.in[2] # <<>>) =>
        LET translations == pure.in[1]
            keys == pure.in[2]
            filtered == pure.out
        IN  /\ IsDict(filtered)
            /\ DictKeys(filtered) = Range(keys)
            /\ \A k \in Range(keys) :
                   DictGet(filtered, k) =
                       IF \E i \in DOMAIN translations : translations[i][1] = k
                       THEN translations[CHOOSE i \in DOMAIN translations :
                                             translations[i][1] = k][2]
                       ELSE k

\* a call with a requested key the source holds and one it does not
C1_Witness ==
    /\ FilterCalled
    /\ \E k \in Range(pure.in[2]) : DictHas(pure.in[1], k)
    /\ \E k \in Range(pure.in[2]) : ~DictHas(pure.in[1], k)

ForecastFiltered == pure.fn = "forecast" /\ pure.done

\* the instant of an ISO reading that carries an offset
C3_Instant(text) == text.wall - text.off

\* C3: _filter_forecast_attributes takes a timezone-naive timestamp (a
\* datetime, or an ISO string without offset) as being UTC already and keeps
\* its wall-clock reading; it converts a timezone-aware timestamp (a datetime
\* with an offset, or an ISO string ending in an offset or in Z) to the same
\* instant written with offset +00:00.
C3_TimestampToUtc ==
    (ForecastFiltered /\ "datetime" \in DOMAIN pure.in) =>
        LET given == pure.in["datetime"]
            dt_str == pure.out.datetime
        IN  /\ (given.t = "datetime" /\ ~given.dt.aware) =>
                   dt_str = IsoText(given.dt.wall, "offset", 0)
            /\ (given.t = "datetime" /\ given.dt.aware) =>
                   /\ dt_str.form = "iso" /\ dt_str.zone = "offset" /\ dt_str.off = 0
                   /\ C3_Instant(dt_str) = given.dt.wall - given.dt.off
            /\ (given.t = "str" /\ given.s.form = "iso" /\ given.s.zone = "none") =>
                   dt_str = IsoText(given.s.wall, "offset", 0)
            /\ (given.t = "str" /\ given.s.form = "iso" /\ given.s.zone = "offset") =>
                   /\ dt_str.form = "iso" /\ dt_str.zone = "offset" /\ dt_str.off = 0
                   /\ C3_Instant(dt_str) = C3_Instant(given.s)
            /\ (given.t = "str" /\ given.s.form = "iso" /\ given.s.zone = "Z") =>
                   dt_str = IsoText(given.s.wall, "offset", 0)

\* an aware datetime east of UTC has been converted
C3_Witness ==
    /\ ForecastFiltered
    /\ "datetime" \in DOMAIN pure.in
    /\ pure.in["datetime"].t = "datetime"
    /\ pure.in["datetime"].dt.aware
    /\ pure.in["datetime"].dt.off > 0
    /\ pure.out.datetime.wall # pure.in["datetime"].dt.wall

\* C4: whatever the "datetime" entry of a forecast item holds (a datetime, a
\* parseable string, an unparseable string, nothing, a value of another
\* type), the "datetime" of the output of _filter_forecast_attributes is a
\* fixed-offset (UTC) ISO-8601 string.
C4_AlwaysUtcIso == ForecastFiltered => IsUtcIsoText(pure.out.datetime)

ImageProcessed == pure.fn = "image" /\ pure.done

\* C6: for every width and height of the downloaded image and both presets
\* (small 120x120, large 160x160), the image written has exactly the preset's
\* dimensions, the resized content is not larger than the canvas, and it is
\* pasted at the non-negative offsets x = (target_w - w) // 2 and
\* y = (target_h - h) // 2.
C6_CoverDimensions ==
    ImageProcessed =>
        LET side == IF pure.in[3] = "small" THEN 120 ELSE 160
            new_img == pure.out
            w == new_img.content[1]
            h == new_img.content[2]
        IN  /\ new_img.width = side /\ new_img.height = side
            /\ w >= 1 /\ w <= side
            /\ h >= 1 /\ h <= side
            /\ new_img.x >= 0 /\ new_img.y >= 0
            /\ new_img.x + w <= side /\ new_img.y + h <= side
            /\ 2 * new_img.x \in {side - w, side - w - 1}
            /\ 2 * new_img.y \in {side - h, side - h - 1}

\* a tall image, narrower than the canvas, was shrunk
C6_Witness ==
    /\ ImageProcessed
    /\ pure.in[1] < 120
    /\ pure.in[2] > 160
    /\ pure.out.content[2] = pure.out.height
    /\ pure.out.x > 0

BaseUrlAsked == pure.fn = "base_url" /\ pure.done

\* the candidates of the fallback chain in priority order; one that is not
\* available (no config entry, a helper that raises) counts as empty
C7_Candidates(cfg) ==
    << IF cfg.entry THEN cfg.user ELSE NoneUrl,
       IF cfg.get_url_raises THEN NoneUrl ELSE cfg.get_url,
       cfg.internal,
       cfg.external,
       IF cfg.port_raises THEN NoneUrl ELSE <<"http://localhost:", cfg.port>>,
       <<"http://localhost:", "8123">> >>

C7_NonEmpty(u) == u # NoneUrl /\ u # <<>>

C7_First(cfg) ==
    LET candidates == C7_Candidates(cfg)
        first == CHOOSE i \in DOMAIN candidates :
                     /\ C7_NonEmpty(candidates[i])
                     /\ \A j \in 1..(i - 1) : ~C7_NonEmpty(candidates[j])
    IN  candidates[first]

C7_WithoutTrailingSlashes(u, stripped) ==
    /\ Len(stripped) <= Len(u)
    /\ stripped = SubSeq(u, 1, Len(stripped))
    /\ \A i \in (Len(stripped) + 1)..Len(u) : u[i] = "/"
    /\ stripped = <<>> \/ stripped[Len(stripped)] # "/"

\* C7 as it stands: _get_base_url returns the first non-empty candidate in
\* the order user-configured URL, get_url() result, internal URL, external
\* URL, http://localhost:<port>, http://localhost:8123, and the URL it
\* returns is never empty.
C7_ReturnsFirstCandidate ==
    BaseUrlAsked => (pure.out = C7_First(pure.in) /\ pure.out # <<>>)

\* C7, amended: _get_base_url returns the first non-empty candidate in that
\* order with its trailing slashes removed, and the URL it returns is never
\* empty.
C7_ReturnsFirstCandidateStripped ==
    BaseUrlAsked =>
        /\ C7_WithoutTrailingSlashes(C7_First(pure.in), pure.out)
        /\ pure.out # <<>>

\* the first three candidates are empty or unavailable: the external URL is returned
C7_Witness ==
    /\ BaseUrlAsked
    /\ ~C7_NonEmpty(C7_Candidates(pure.in)[1])
    /\ ~C7_NonEmpty(C7_Candidates(pure.in)[2])
    /\ ~C7_NonEmpty(C7_Candidates(pure.in)[3])
    /\ C7_NonEmpty(pure.in.external)
    /\ pure.out # pure.in.external

ForecastsPublished == last.op = "get_forecasts" /\ last.outcome = "published"

\* C5: when get_forecasts is given a response holding a forecast list of
\* length n for the requested entity, the list it persists and the list it
\* publishes on the forecast sensor both have length min(12, n), and their
\* i-th entry is the filtered i-th entry of the input: the first entries are
\* kept, in input order.  A list of at least one entry is persisted and
\* published whenever no collaborator fails.
C5_ForecastTruncation ==
    /\ ForecastsPublished =>
           LET input == last.response.forecast
               n == Len(input)
               persisted == store[ForecastKey(last.type)]
               sensor == states[ForecastSensor(last.type)]
               published == DictGet(sensor.attributes, Attr("forecasts"))
           IN  /\ Len(persisted.forecasts) = Min(12, n)
               /\ persisted.count = Min(12, n)
               /\ \A i \in 1..Min(12, n) :
                      persisted.forecasts[i] = FilterForecastAttributes(input[i])
               /\ published = persisted.forecasts
               /\ sensor.state = IntState(Min(12, n))
               /\ DictGet(sensor.attributes, Attr("count")) = Min(12, n)
    /\ ( /\ last.op = "get_forecasts"
         /\ last.response.kind = "entity"
         /\ Len(last.response.forecast) >= 1
         /\ last.faults = {} ) => last.outcome = "published"

\* a list longer than the limit was published
C5_Witness ==
    /\ ForecastsPublished
    /\ Len(last.response.forecast) > 12
    /\ Len(store[ForecastKey(last.type)].forecasts) = 12
    /\ store[ForecastKey(last.type)].forecasts[12].temperature = 12

HandlerOps ==
    {"get_raw_translations", "get_translations", "get_translations_esphome",
     "save_media_cover", "get_forecasts"}

EsphomeGrouped ==
    /\ last.op = "get_translations_esphome"
    /\ last.faults = {}
    /\ last.keys.kind # "number"

\* the segments of a key, and the slot <<bucket, short key>> of a kept key
C2_Segments(key) == Split(key)

C2_Kept(key) ==
    /\ IsStr(key)
    /\ Len(C2_Segments(key)) >= 2
    /\ C2_Segments(key)[1] = <<"component">>

C2_Slot(key) == <<C2_Segments(key)[2], C2_Segments(key)[Len(C2_Segments(key))]>>

\* the slots of a grouped mapping, and what a slot holds
C2_Slots(grouped) ==
    UNION { {<<grouped[b][1], grouped[b][2][k][1]>> : k \in DOMAIN grouped[b][2]} :
                b \in DOMAIN grouped }

C2_At(grouped, slot) == DictGet(DictGet(grouped, slot[1]), slot[2])

\* C2 as it stands: in get_translations_esphome the grouping keeps exactly
\* the entries whose dot-separated key has at least two segments and first
\* segment "component"; each kept entry is stored under bucket = second
\* segment and short key = last segment; every other key is dropped without
\* raising an error or setting the error state.
C2_GroupingKeepsEveryEntry ==
    EsphomeGrouped =>
        /\ last.exception = ""
        /\ states[SENSOR_ENTITY_ID].state # StrState("error")
        /\ LET translations == last.translations
               grouped == store["grouped_translations"]
           IN  /\ \A i \in DOMAIN translations :
                      C2_Kept(translations[i][1]) =>
                          /\ C2_Slot(translations[i][1]) \in C2_Slots(grouped)
                          /\ C2_At(grouped, C2_Slot(translations[i][1])) = translations[i][2]
               /\ \A slot \in C2_Slots(grouped) :
                      \E i \in DOMAIN translations :
                          C2_Kept(translations[i][1]) /\ C2_Slot(translations[i][1]) = slot

\* C2, amended: the slots (bucket = second segment, short key = last
\* segment) of the grouped mapping are exactly those of the entries whose
\* key is a str with at least two dot-separated segments and first segment
\* "component"; a slot holds the value of the last such entry in iteration
\* order, so an earlier entry with the same bucket and last segment is
\* overwritten; every other str key is dropped without an error.  A key that
\* is not a str (one echoed from a JSON key list of numbers) raises, and the
\* handler sets the error state.
C2_GroupingLastEntryWins ==
    EsphomeGrouped =>
        LET translations == last.translations
        IN  IF \E i \in DOMAIN translations : ~IsStr(translations[i][1])
            THEN /\ last.exception = "AttributeError"
                 /\ states[SENSOR_ENTITY_ID].state = StrState("error")
            ELSE /\ last.exception = ""
                 /\ states[SENSOR_ENTITY_ID].state = StrState(last.language)
                 /\ LET grouped == store["grouped_translations"]
                        kept == {i \in DOMAIN translations : C2_Kept(translations[i][1])}
                    IN  /\ IsDict(grouped)
                        /\ \A b \in DOMAIN grouped : IsDict(grouped[b][2])
                        /\ C2_Slots(grouped) = {C2_Slot(translations[i][1]) : i \in kept}
                        /\ \A i \in kept :
                               (\A j \in kept : j > i =>
                                    C2_Slot(translations[j][1]) # C2_Slot(translations[i][1]))
                               => C2_At(grouped, C2_Slot(translations[i][1])) = translations[i][2]

\* two kept entries with the same bucket and last segment and different
\* values, next to none that is dropped: the later value is the one stored
C2_Witness ==
    /\ EsphomeGrouped
    /\ last.exception = ""
    /\ Len(last.translations) = 2
    /\ C2_Kept(last.translations[1][1])
    /\ C2_Kept(last.translations[2][1])
    /\ C2_Slot(last.translations[1][1]) = C2_Slot(last.translations[2][1])
    /\ last.translations[1][2] # last.translations[2][2]
    /\ C2_At(store["grouped_translations"], C2_Slot(last.translations[1][1]))
           = last.translations[2][2]

\* C9: whenever the translation backend fails during a call, the outcome is
\* one of the declared failure outcomes: get_translations and
\* get_raw_translations return a mapping with an "error" field;
\* get_translations_esphome sets the main sensor to the state "error" or
\* leaves the persisted record and the sensor as they were, and never
\* replaces stored grouped translations by an empty result.
C9_BackendFailureIsReported ==
    [][ /\ (last'.op = "get_translations" /\ last'.fails) =>
               "error" \in DOMAIN last'.response
        /\ (last'.op = "get_raw_translations" /\ last'.failing # {}) =>
               "error" \in DOMAIN last'.response
        /\ (last'.op = "get_translations_esphome" /\ "backend" \in last'.faults) =>
               \/ states'[SENSOR_ENTITY_ID].state = StrState("error")
               \/ store' = store /\ states' = states
      ]_vars

CoverFailed == last.op = "save_media_cover" /\ last.stage # "saved"

\* C10 as it stands: in save_media_cover a failure at any step (entity
\* missing, no entity_picture, HTTP status other than 200, download error,
\* decode or resize error, encode error) makes _download_and_process_cover
\* return False with nothing written: neither the output directory nor the
\* cover file is touched before the final encode succeeds, and the previous
\* cover file is unchanged.
C10_FailureWritesNothing ==
    [][ CoverFailed' => (~last'.success /\ fs' = fs) ]_vars

\* C10, amended: a failure at any step makes _download_and_process_cover
\* return False; a failure before the encode (including a failing
\* os.makedirs) leaves the directory and the cover file as they were; the
\* output directory is made before the encode, so after a failed encode the
\* directory exists and the cover file is either as it was or partially
\* written.
C10_FailureReturnsFalse ==
    [][ CoverFailed' =>
            /\ ~last'.success
            /\ last'.stage # "save_error" => fs' = fs
            /\ last'.stage = "save_error" =>
                   /\ fs'.dir
                   /\ fs'.file \in {fs.file, PartialFile}
      ]_vars

\* a failed encode made the directory and left a partial file where an
\* earlier cover was
C10_Witness ==
    /\ CoverFailed
    /\ last.stage = "save_error"
    /\ ~last.success
    /\ fs.dir
    /\ fs.file = PartialFile

FiveServices ==
    {"get_raw_translations", "get_translations", "get_translations_esphome",
     "save_media_cover", "get_forecasts"}

ThreeSensors ==
    {"sensor.display_tools", "sensor.display_tools_forecast_daily",
     "sensor.display_tools_forecast_hourly"}

C11_Unloaded ==
    last.op = "unload" =>
        /\ services \cap FiveServices = {}
        /\ DOMAIN states \cap ThreeSensors = {}
        /\ ~domainData

\* C11 as it stands: after async_setup_entry all five services are
\* registered and all three state objects (main sensor, daily and hourly
\* forecast sensor) exist, whether or not persisted data exists; after
\* async_unload_entry none of the five services is registered, none of the
\* three state objects exists and the domain entry of hass.data is removed.
C11_SetupCreatesThreeSensors ==
    /\ last.op = "setup" =>
           /\ FiveServices \subseteq services
           /\ ThreeSensors \subseteq DOMAIN states
    /\ C11_Unloaded

\* C11, amended: after async_setup_entry all five services are registered
\* and the main sensor exists, whether or not persisted data exists; the
\* forecast sensor of a type exists exactly when the persisted record holds
\* the sub-record forecast_<type>; after async_unload_entry none of the five
\* services is registered, none of the three state objects exists and the
\* domain entry of hass.data is removed.
C11_SetupRestoresPersistedSensors ==
    /\ last.op = "setup" =>
           /\ FiveServices \subseteq services
           /\ domainData
           /\ "sensor.display_tools" \in DOMAIN states
           /\ ("sensor.display_tools_forecast_daily" \in DOMAIN states)
                  <=> ("forecast_daily" \in DOMAIN store)
           /\ ("sensor.display_tools_forecast_hourly" \in DOMAIN states)
                  <=> ("forecast_hourly" \in DOMAIN store)
    /\ C11_Unloaded

\* a setup over a record that holds daily forecasts and no hourly ones
C11_Witness ==
    /\ last.op = "setup"
    /\ "forecast_daily" \in DOMAIN store
    /\ "sensor.display_tools_forecast_daily" \in DOMAIN states
    /\ "sensor.display_tools_forecast_hourly" \notin DOMAIN states

\* what the claim compares of the main sensor: its state and every attribute
\* but the fixed ones and the base URL
C12_MainView(obj) ==
    [ state |-> obj.state,
      attributes |->
          {obj.attributes[i] : i \in
              {i \in DOMAIN obj.attributes :
                  obj.attributes[i][1] \notin
                      {<<"friendly_name">>, <<"icon">>, <<"available_categories">>,
                       <<"available_cover_sizes">>, <<"base_url">>}}} ]

\* the same view, read from the persisted record
C12_MainPersisted(record) ==
    [ state |-> [t |-> "str", s |-> record["language"], i |-> 0],
      attributes |->
          { <<<<"language">>, record["language"]>>,
            <<<<"category">>, record["category"]>>,
            <<<<"translations_count">>, record["translations_count"]>>,
            <<<<"requested_keys_count">>, record["requested_keys_count"]>> }
          \cup { << record["grouped_translations"][b][1],
                    [json |-> record["grouped_translations"][b][2]] >> :
                     b \in DOMAIN record["grouped_translations"] } ]

C12_ForecastView(obj) ==
    [ state |-> obj.state,
      attributes |->
          {obj.attributes[i] : i \in
              {i \in DOMAIN obj.attributes :
                  obj.attributes[i][1] \in
                      {<<"entity_id">>, <<"type">>, <<"count">>, <<"forecasts">>}}} ]

C12_ForecastPersisted(info) ==
    [ state |-> [t |-> "int", s |-> "", i |-> info.count],
      attributes |->
          { <<<<"entity_id">>, info.entity_id>>, <<<<"type">>, info.type>>,
            <<<<"count">>, info.count>>, <<<<"forecasts">>, info.forecasts>> } ]

C12_InError(st, sensor) ==
    sensor \in DOMAIN st /\ st[sensor].state = [t |-> "str", s |-> "error", i |-> 0]

\* a setup that follows an unload: last.removed holds the state objects as
\* they were before the unload
C12_Reloaded == last.op = "unload" /\ last'.op = "setup"

\* C12: after successful get_translations_esphome and get_forecasts calls,
\* an unload followed by a setup restores the main sensor's state and its
\* language, category, translations_count, requested_keys_count and
\* per-component attributes, and each forecast sensor's state and entity_id,
\* type, count and forecasts attributes, as the last successful call of that
\* kind published them before the unload; a sensor that was in the state
\* "error" before the unload is restored from the last successfully
\* persisted data instead.
C12_RestoreRoundTrip ==
    [][ C12_Reloaded =>
            /\ "language" \in DOMAIN store =>
                   /\ C12_MainView(states'["sensor.display_tools"]) = C12_MainPersisted(store)
                   /\ ~C12_InError(last.removed, "sensor.display_tools") =>
                          C12_MainView(states'["sensor.display_tools"])
                              = C12_MainView(last.removed["sensor.display_tools"])
            /\ \A type \in {"daily", "hourly"} :
                   LET key == IF type = "daily" THEN "forecast_daily" ELSE "forecast_hourly"
                       sensor == IF type = "daily"
                                 THEN "sensor.display_tools_forecast_daily"
                                 ELSE "sensor.display_tools_forecast_hourly"
                   IN  key \in DOMAIN store =>
                           /\ C12_ForecastView(states'[sensor]) = C12_ForecastPersisted(store[key])
                           /\ ~C12_InError(last.removed, sensor) =>
                                  C12_ForecastView(states'[sensor])
                                      = C12_ForecastView(last.removed[sensor])
      ]_vars

\* a setup over a record written by earlier calls: the main sensor shows the
\* persisted language and the vacuum component, the daily forecast sensor
\* its twelve forecasts
C12_Witness ==
    /\ last.op = "setup"
    /\ "language" \in DOMAIN store
    /\ states["sensor.display_tools"].state = [t |-> "str", s |-> store["language"], i |-> 0]
    /\ \E b \in DOMAIN store["grouped_translations"] :
           store["grouped_translations"][b][1] = <<"vacuum">>
    /\ "forecast_daily" \in DOMAIN store
    /\ states["sensor.display_tools_forecast_daily"].state = [t |-> "int", s |-> "", i |-> 12]

\* the text without the spaces around it
C13_Trimmed(text, trimmed) ==
    /\ \E i \in 0..Len(text), j \in 0..Len(text) :
           /\ i + Len(trimmed) + j = Len(text)
           /\ \A k \in 1..i : text[k] = " "
           /\ \A k \in 1..j : text[Len(text) + 1 - k] = " "
           /\ \A k \in 1..Len(trimmed) : text[i + k] = trimmed[k]
    /\ trimmed = <<>> \/ (trimmed[1] # " " /\ trimmed[Len(trimmed)] # " ")

C13_HasScheme(trimmed) ==
    /\ Len(trimmed) >= 3
    /\ trimmed[1] \in {"http:", "https:"}
    /\ trimmed[2] = "/"
    /\ trimmed[3] = "/"

\* what a submitted form must lead to, given the entry before and after
C13_Submitted(user_input, result, before, after) ==
    LET text == IF user_input.has_url THEN user_input.url ELSE <<>>
    IN  \E trimmed \in {SubSeq(text, a, b) : a \in 1..(Len(text) + 1), b \in 0..Len(text)} :
            /\ C13_Trimmed(text, trimmed)
            /\ (trimmed # <<>> /\ ~C13_HasScheme(trimmed)) =>
                   /\ result.type = "form"
                   /\ result.errors = {<<"base_url", "invalid_url">>}
                   /\ after = before
            /\ trimmed = <<>> =>
                   /\ result.type = "create_entry"
                   /\ after = <<"#None">>
            /\ (trimmed # <<>> /\ C13_HasScheme(trimmed)) =>
                   /\ result.type = "create_entry"
                   /\ after = trimmed

\* C13: in the user step and in the options flow, a submitted base URL that
\* is non-empty after trimming and does not start with http:// or https://
\* gives the form again with the error invalid_url and creates or updates no
\* entry; an empty or whitespace-only URL is stored as None; a URL with a
\* valid scheme is stored trimmed; the user step aborts with
\* single_instance_allowed, creating no entry, whenever an entry exists.
C13_ConfigFlowValidation ==
    [][ /\ last'.op = "step_user" =>
               IF entryUrl # <<"#NoEntry">>
               THEN /\ last'.result.type = "abort"
                    /\ last'.result.reason = "single_instance_allowed"
                    /\ entryUrl' = entryUrl
               ELSE last'.user_input.submitted =>
                        C13_Submitted(last'.user_input, last'.result, entryUrl, entryUrl')
        /\ (last'.op = "step_init" /\ last'.user_input.submitted) =>
               C13_Submitted(last'.user_input, last'.result, entryUrl, entryUrl')
      ]_vars

\* the options flow has stored an https URL that was typed with spaces
\* around it
C13_Witness ==
    /\ last.op = "step_init"
    /\ last.user_input.has_url
    /\ last.user_input.url # <<>>
    /\ last.user_input.url[1] = " "
    /\ last.result.type = "create_entry"
    /\ entryUrl = <<"https:", "/", "/", "my.ha", "/">>

TranslationsReturned == last.op = "get_translations"

\* the number of entries of a mapping
C14_Entries(mapping) == Cardinality({mapping[i][1] : i \in DOMAIN mapping})

\* C14: get_translations called without a key list, or with an empty one,
\* returns the host's mapping of the category as it is; called with a
\* non-empty key list it returns the mapping restricted to the requested
\* keys (a requested key the host's mapping lacks is echoed as its own
\* value); and in every response without an "error" field,
\* total_translations is the number of entries of the translations returned.
C14_GetTranslationsResponse ==
    TranslationsReturned =>
        LET response == last.response
            requested == {last.keys.items[i] : i \in DOMAIN last.keys.items}
        IN  /\ "error" \notin DOMAIN response =>
                   /\ \A i, j \in DOMAIN response.translations :
                          response.translations[i][1] = response.translations[j][1] => i = j
                   /\ response.total_translations = C14_Entries(response.translations)
            /\ (~last.fails /\ requested = {}) => response.translations = db
            /\ (~last.fails /\ requested # {}) =>
                   /\ {response.translations[i][1] : i \in DOMAIN response.translations}
                          = requested
                   /\ \A i \in DOMAIN response.translations :
                          LET key == response.translations[i][1]
                          IN  IF \E j \in DOMAIN db : db[j][1] = key
                              THEN \E j \in DOMAIN db : db[j] = response.translations[i]
                              ELSE response.translations[i][2] = key

\* a key list that names one entry of a host mapping of two: one entry comes
\* back, and it is counted
C14_Witness ==
    /\ TranslationsReturned
    /\ ~last.fails
    /\ Len(db) = 2
    /\ Len(last.keys.items) = 2
    /\ last.response.total_translations = 1
    /\ \E j \in DOMAIN db : db[j] = last.response.translations[1]

\* every field of the record, and every state object, but the named ones
\* is what it was
C15_OnlyFieldChanged(before, after, key) ==
    /\ DOMAIN after = DOMAIN before \cup {key}
    /\ \A k \in DOMAIN before \ {key} : after[k] = before[k]

C15_Kept(before, after, keys) ==
    \A k \in keys : /\ (k \in DOMAIN after) <=> (k \in DOMAIN before)
                    /\ k \in DOMAIN before => after[k] = before[k]

\* C15: a successful get_forecasts call for one forecast type replaces only
\* the persisted sub-record forecast_<type> and the sensor of that type: the
\* sub-record and sensor of the other type, the persisted language, category
\* and grouped_translations and the main sensor stay as they were; a
\* successful get_translations_esphome call leaves both persisted forecast
\* sub-records and both forecast sensors as they were.
C15_WritesOnlyItsOwnPart ==
    [][ /\ (last'.op = "get_forecasts" /\ last'.outcome = "published") =>
               LET key == IF last'.type = "daily" THEN "forecast_daily" ELSE "forecast_hourly"
                   sensor == IF last'.type = "daily"
                             THEN "sensor.display_tools_forecast_daily"
                             ELSE "sensor.display_tools_forecast_hourly"
               IN  /\ C15_OnlyFieldChanged(store, store', key)
                   /\ C15_OnlyFieldChanged(states, states', sensor)
        /\ (last'.op = "get_translations_esphome" /\ last'.exception = "") =>
               /\ C15_Kept(store, store', {"forecast_daily", "forecast_hourly"})
               /\ C15_Kept(states, states',
                      {"sensor.display_tools_forecast_daily",
                       "sensor.display_tools_forecast_hourly"})
      ]_vars

\* hourly forecasts published next to persisted translations and daily
\* forecasts
C15_Witness ==
    /\ last.op = "get_forecasts"
    /\ last.outcome = "published"
    /\ last.type = "hourly"
    /\ {"language", "grouped_translations", "forecast_daily", "forecast_hourly"}
           \subseteq DOMAIN store
    /\ store["grouped_translations"] # <<>>
    /\ states["sensor.display_tools"].state = [t |-> "str", s |-> store["language"], i |-> 0]
    /\ "sensor.display_tools_forecast_daily" \in DOMAIN states

C16_ErrorState == [t |-> "str", s |-> "error", i |-> 0]

C16_Sensor(type) ==
    IF type = "daily"
    THEN "sensor.display_tools_forecast_daily"
    ELSE "sensor.display_tools_forecast_hourly"

\* C16: when the response of the weather service is empty, does not hold the
\* requested entity id, or holds an empty forecast list, get_forecasts is a
\* silent no-op: the persisted record and the three sensors stay as they
\* were, and no "error" state is set; the forecast sensor is set to the state
\* "error" only when an exception is raised, and then the persisted record
\* stays as it was.
C16_NoDataIsSilent ==
    [][ last'.op = "get_forecasts" =>
            LET sensor == C16_Sensor(last'.type)
                raised == last'.exception # ""
                set_to_error ==
                    /\ states'[sensor].state = C16_ErrorState
                    /\ ~(sensor \in DOMAIN states /\ states[sensor] = states'[sensor])
            IN  /\ ( /\ "weather" \notin last'.faults
                     /\ \/ last'.response.kind \in {"none", "other"}
                        \/ last'.response.forecast = <<>> ) =>
                       /\ store' = store
                       /\ states' = states
                       /\ ~raised
                /\ (sensor \in DOMAIN states' /\ set_to_error) => raised
                /\ raised =>
                       /\ states'[sensor].state = C16_ErrorState
                       /\ store' = store
                       /\ \A e \in DOMAIN states \ {sensor} :
                              e \in DOMAIN states' /\ states'[e] = states[e]
      ]_vars

\* an empty forecast list came back for the daily type while the store could
\* not have been loaded: the restored daily sensor still shows its two
\* forecasts
C16_Witness ==
    /\ last.op = "get_forecasts"
    /\ last.type = "daily"
    /\ last.response.kind = "entity"
    /\ last.response.forecast = <<>>
    /\ "load" \in last.faults
    /\ last.outcome = "no_data"
    /\ "forecast_daily" \in DOMAIN store
    /\ states["sensor.display_tools_forecast_daily"].state = [t |-> "int", s |-> "", i |-> 2]

\* the fields of the record a call writes
C17_Fields(call) ==
    IF call.op = "get_forecasts"
    THEN {IF call.arg = "daily" THEN "forecast_daily" ELSE "forecast_hourly"}
    ELSE {"language", "category", "grouped_translations", "translations_count",
          "requested_keys_count"}

\* C17: when two calls that write the persisted record
\* (get_translations_esphome and get_forecasts, or two get_forecasts calls of
\* different types) run as overlapping tasks that interleave at their awaits
\* (store load, store save), no update is lost: once both have completed, the
\* persisted record holds the fields written by both.
C17_NoUpdateLost ==
    ( /\ Len(tasks) = 2
      /\ tasks[1].pc = "done"
      /\ tasks[2].pc = "done"
      /\ C17_Fields(tasks[1].call) \cap C17_Fields(tasks[2].call) = {} ) =>
        \A id \in {1, 2} :
            \A field \in C17_Fields(tasks[id].call) :
                /\ field \in DOMAIN store
                /\ store[field] = tasks[id].stored_data[field]

\* the value of the attribute "forecasts" of a state object
C18_Forecasts(obj) ==
    LET i == CHOOSE i \in DOMAIN obj.attributes : obj.attributes[i][1] = <<"forecasts">>
    IN  obj.attributes[i][2]

C18_Consistent(key, sensor) ==
    /\ key \in DOMAIN store =>
           /\ store[key].count = Len(store[key].forecasts)
           /\ store[key].count <= 12
    /\ ( /\ sensor \in DOMAIN states
         /\ states[sensor].state # [t |-> "str", s |-> "error", i |-> 0] ) =>
           /\ key \in DOMAIN store
           /\ states[sensor].state = [t |-> "int", s |-> "", i |-> store[key].count]
           /\ C18_Forecasts(states[sensor]) = store[key].forecasts

\* C18: after any sequence of setup, unload and service calls, each run to
\* completion before the next starts, every persisted forecast sub-record
\* has count = length of its forecasts list <= 12, and a forecast sensor
\* that exists and is not in the state "error" has that count as its state
\* and the persisted forecasts list of its type as its "forecasts"
\* attribute.
C18_ForecastSensorMirrorsRecord ==
    /\ C18_Consistent("forecast_daily", "sensor.display_tools_forecast_daily")
    /\ C18_Consistent("forecast_hourly", "sensor.display_tools_forecast_hourly")

\* the hourly sensor shows the twelve persisted forecasts, while a daily
\* call made over persisted daily forecasts has failed
C18_Witness ==
    /\ last.op = "get_forecasts"
    /\ last.type = "daily"
    /\ last.outcome = "error"
    /\ {"forecast_daily", "forecast_hourly"} \subseteq DOMAIN store
    /\ store["forecast_hourly"].count = 12
    /\ states["sensor.display_tools_forecast_hourly"].state = [t |-> "int", s |-> "", i |-> 12]
    /\ Len(C18_Forecasts(states["sensor.display_tools_forecast_hourly"])) = 12

=============================================================================
